---- MODULE Spec2Model ----
(***************************************************************************)
(* A model of run.py (the WRPF UK qualifying-totals Streamlit app):        *)
(*   - load_qualifying_table : workbook -> tidy (long) table               *)
(*   - numeric_sort_key_wc and the weight-class option lists               *)
(*   - filter_with_controls / reset_filters over st.session_state          *)
(*   - the module-level script: data load, widgets, tabs                   *)
(*                                                                         *)
(* Text is a sequence of one-character strings, so that str.strip,         *)
(* str.lower, str.replace and float() are computed, not assumed.           *)
(* A spreadsheet cell is <<>> (empty, NaN) or <<v>> (a value).             *)
(***************************************************************************)
EXTENDS Integers, Sequences, FiniteSets, TLC

VARIABLES
    source,     \* SpecLoad: the file handed to load_qualifying_table
    long_df,    \* SpecLoad: what load_qualifying_table returned
    lpc,        \* SpecLoad: "ready" | "loaded" | "raised" ("off" elsewhere)
    wc_series,  \* SpecSort: the WeightClassKg values of the rows of one sex
    wc_options, \* SpecSort: the option list built from them
    spc,        \* SpecSort: "ready" | "sorted" ("off" elsewhere)
    session_state, \* st.session_state: the keys present and their values
    fdf,        \* SpecFilter: the table handed to filter_with_controls
    fout,       \* SpecFilter: what filter_with_controls returned
    fpc,        \* SpecFilter: "ready" | "resolved" ("off" elsewhere)
    fs,         \* Spec: the files FP.xlsx and 2025_FP.xlsx
    pc,         \* Spec: where the script run stands ("off" elsewhere)
    data,       \* Spec: data
    prev_data,  \* Spec: prev_data, <<>> for None, <<df>> for a DataFrame
    options,    \* Spec: ages, eqs, male_wcs, female_wcs
    views,      \* Spec: sbd_view, singles_view, prev_sbd_view, prev_singles_view
    shown,      \* Spec: the tables show_table put on the page
    notices,    \* Spec: st.error / st.warning / st.info shown in this run
    trigger     \* Spec: what started this run: "open" | "widget" | "reset"

----------------------------------------------------------------------------
(* Bounds *)

\* Most rows in one sheet of a workbook.
MaxRows == 2

\* Most rows of one sex whose weight classes feed an option list.
MaxLabels == 3

\* Most options a user picks in one multiselect (Gender aside).
MaxSelect == 1

----------------------------------------------------------------------------
(* Text *)

UpperCase == <<"A","B","C","D","E","F","G","H","I","J","K","L","M",
               "N","O","P","Q","R","S","T","U","V","W","X","Y","Z">>
LowerCase == <<"a","b","c","d","e","f","g","h","i","j","k","l","m",
               "n","o","p","q","r","s","t","u","v","w","x","y","z">>
Whitespace == {" ", "\t", "\n"}

Range(s) == {s[i] : i \in 1..Len(s)}

lower_char(c) ==
    IF \E i \in 1..Len(UpperCase) : UpperCase[i] = c
    THEN LowerCase[CHOOSE i \in 1..Len(UpperCase) : UpperCase[i] = c]
    ELSE c

\* str.lower()
str_lower(s) == [i \in 1..Len(s) |-> lower_char(s[i])]

RECURSIVE str_lstrip(_)
str_lstrip(s) ==
    IF s # <<>> /\ Head(s) \in Whitespace THEN str_lstrip(Tail(s)) ELSE s

RECURSIVE str_rstrip(_)
str_rstrip(s) ==
    IF s # <<>> /\ s[Len(s)] \in Whitespace
    THEN str_rstrip(SubSeq(s, 1, Len(s) - 1))
    ELSE s

\* str.strip()
str_strip(s) == str_rstrip(str_lstrip(s))

\* str.endswith(suffix)
str_endswith(s, suffix) ==
    /\ Len(suffix) <= Len(s)
    /\ SubSeq(s, Len(s) - Len(suffix) + 1, Len(s)) = suffix

\* A cell is empty (NaN) or holds one value.
NaN == <<>>
isna(cell) == cell = NaN

\* astype(str) of a cell: the text itself, "nan" for an empty cell.
astype_str(cell) == IF isna(cell) THEN <<"n","a","n">> ELSE cell[1]

----------------------------------------------------------------------------
(* Column names and values of the tables *)

AGE_CATEGORY == <<"A","g","e"," ","C","a","t","e","g","o","r","y">>
SEX == <<"S","e","x">>
EVENT == <<"E","v","e","n","t">>
TESTED == <<"T","e","s","t","e","d">>
EQUIPMENT == <<"E","q","u","i","p","m","e","n","t">>

Male == <<"M","a","l","e">>
Female == <<"F","e","m","a","l","e">>
SBD == <<"S","B","D">>
EvB == <<"B">>
EvD == <<"D">>
Tested == <<"T","e","s","t","e","d">>
Untested == <<"U","n","t","e","s","t","e","d">>
All == <<"A","l","l">>
Raw == <<"R","a","w">>
SinglePly == <<"S","i","n","g","l","e","-","p","l","y">>
Age24 == <<"2","4","-","3","9">>
Age40 == <<"4","0","-","4","9">>

W90 == <<"9","0">>
W110P == <<"1","1","0","+">>
W63 == <<"6","3">>

DotXlsx == <<".","x","l","s","x">>
DotXls == <<".","x","l","s">>
DotCsv == <<".","c","s","v">>

----------------------------------------------------------------------------
(* load_qualifying_table *)

\* base_cols
base_cols == {AGE_CATEGORY, SEX, EVENT, TESTED, EQUIPMENT}

RECURSIVE append_new(_, _)
append_new(cols, more) ==
    IF more = <<>> THEN cols
    ELSE append_new(IF Head(more) \in Range(cols) THEN cols
                    ELSE Append(cols, Head(more)),
                    Tail(more))

RECURSIVE concat_columns(_)
concat_columns(frames) ==
    IF frames = <<>> THEN <<>>
    ELSE append_new(concat_columns(SubSeq(frames, 1, Len(frames) - 1)),
                    frames[Len(frames)].columns)

RECURSIVE concat_rows(_, _)
concat_rows(frames, cols) ==
    IF frames = <<>> THEN <<>>
    ELSE LET f == Head(frames)
             widen(r) == [c \in Range(cols) |->
                            IF c \in Range(f.columns) THEN r[c] ELSE NaN]
         IN  [i \in 1..Len(f.rows) |-> widen(f.rows[i])]
             \o concat_rows(Tail(frames), cols)

\* pd.concat(frames, ignore_index=True): every column of any frame, in order
\* of first appearance; the frames' rows in order; NaN where a frame has no
\* such column.
pd_concat(frames) ==
    LET cols == concat_columns(frames)
    IN  [columns |-> cols, rows |-> concat_rows(frames, cols)]

\* One row of the melted table. index is the row label pandas gives it.
melt_row(wide, value_vars, k, i) ==
    [index             |-> (k - 1) * Len(wide.rows) + (i - 1),
     AgeCategory       |-> wide.rows[i][AGE_CATEGORY],
     Sex               |-> wide.rows[i][SEX],
     Event             |-> wide.rows[i][EVENT],
     Tested            |-> wide.rows[i][TESTED],
     Equipment         |-> wide.rows[i][EQUIPMENT],
     WeightClassKg     |-> <<value_vars[k]>>,
     QualifyingTotalKg |-> wide.rows[i][value_vars[k]]]

\* Mutant of melt: the wide rows one after the other, each with every
\* value column.
melt_by_row(wide, value_vars) ==
    LET N == Len(wide.rows)
        K == Len(value_vars)
    IN  [p \in 1..(N * K) |->
            [melt_row(wide, value_vars, ((p - 1) % K) + 1, ((p - 1) \div K) + 1)
                EXCEPT !.index = p - 1]]

\* DataFrame.melt: the value columns one after the other, each with every
\* row of the wide table.
melt(wide, value_vars) ==
    LET N == Len(wide.rows)
        K == Len(value_vars)
    IN  [p \in 1..(N * K) |->
            melt_row(wide, value_vars, ((p - 1) \div N) + 1, ((p - 1) % N) + 1)]

\* astype(str).str.strip() on the six text columns.
strip_columns(r) ==
    [r EXCEPT !.AgeCategory   = str_strip(astype_str(@)),
              !.Sex           = str_strip(astype_str(@)),
              !.Event         = str_strip(astype_str(@)),
              !.Tested        = str_strip(astype_str(@)),
              !.Equipment     = str_strip(astype_str(@)),
              !.WeightClassKg = str_strip(astype_str(@))]

\* Mutant of dropna_total: the rows without a total are kept.
dropna_total_keep(rows) == rows

\* long_df[~long_df["QualifyingTotalKg"].isna()]
dropna_total(rows) == SelectSeq(rows, LAMBDA r : ~isna(r.QualifyingTotalKg))

tested_map ==
       (<<"y","e","s">> :> Tested)
    @@ (<<"t","r","u","e">> :> Tested)
    @@ (<<"t","e","s","t","e","d">> :> Tested)
    @@ (<<"n","o">> :> Untested)
    @@ (<<"f","a","l","s","e">> :> Untested)
    @@ (<<"u","n","t","e","s","t","e","d">> :> Untested)

\* Mutant of map_tested: the unmapped value is filled in lowercased.
map_tested_lowered(t) ==
    LET k == str_lower(t)
    IN  IF k \in DOMAIN tested_map THEN tested_map[k] ELSE k

\* .str.lower().map(tested_map).fillna(original)
map_tested(t) ==
    LET k == str_lower(t)
    IN  IF k \in DOMAIN tested_map THEN tested_map[k] ELSE t

\* The format branch: "excel", "csv" or "unsupported".
detect_format(src) ==
    LET name == str_lower(src.name)
    IN  IF \/ str_endswith(name, DotXlsx)
           \/ str_endswith(name, DotXls)
           \/ (src.is_str /\ src.exists)
        THEN "excel"
        ELSE IF str_endswith(name, DotCsv) THEN "csv" ELSE "unsupported"

\* The sheets the reader returns, or <<>> when the reader raises.
read_frames(src) ==
    LET fmt == detect_format(src)
    IN  IF fmt = "unsupported" \/ ~src.exists \/ src.format # fmt THEN <<>>
        ELSE IF fmt = "csv" THEN <<src.sheets[1]>>
        ELSE src.sheets

\* load_qualifying_table: [raised, df].
load_qualifying_table(src) ==
    LET frames == read_frames(src)
        wide == pd_concat(frames)
        weight_cols == SelectSeq(wide.columns, LAMBDA c : c \notin base_cols)
        melted == melt(wide, weight_cols)
        stripped == [p \in 1..Len(melted) |-> strip_columns(melted[p])]
        kept == dropna_total(stripped)
    IN  IF frames = <<>> \/ ~(base_cols \subseteq Range(wide.columns))
        THEN [raised |-> TRUE, df |-> <<>>]
        ELSE [raised |-> FALSE,
              df |-> [p \in 1..Len(kept) |->
                        [kept[p] EXCEPT !.Tested = map_tested(@)]]]

----------------------------------------------------------------------------
(* numeric_sort_key_wc and the weight-class option lists *)

\* The characters of the model in code-point order.
CodePoints ==
    <<"\t", "\n", " ", "+", "-", ".", "/",
      "0","1","2","3","4","5","6","7","8","9">> \o UpperCase \o <<"_">> \o LowerCase

ord(c) == CHOOSE i \in 1..Len(CodePoints) : CodePoints[i] = c

\* s < t on str: the first differing character decides, a proper prefix is
\* smaller.
RECURSIVE str_less(_, _)
str_less(s, t) ==
    IF t = <<>> THEN FALSE
    ELSE IF s = <<>> THEN TRUE
    ELSE IF Head(s) = Head(t) THEN str_less(Tail(s), Tail(t))
    ELSE ord(Head(s)) < ord(Head(t))

DigitChars == <<"0","1","2","3","4","5","6","7","8","9">>
is_digit(c) == c \in Range(DigitChars)
digit_value(c) == (CHOOSE i \in 1..Len(DigitChars) : DigitChars[i] = c) - 1

RECURSIVE digits_value(_)
digits_value(ds) ==
    IF ds = <<>> THEN 0
    ELSE 10 * digits_value(SubSeq(ds, 1, Len(ds) - 1)) + digit_value(ds[Len(ds)])

\* float(s) for text made of the characters of CodePoints, without an
\* exponent and without "_" between digits: surrounding whitespace is
\* ignored, then an optional sign, then inf, infinity or nan in any case, or
\* digits with at most one "." and at least one digit. ok = FALSE is
\* ValueError. A finite value is held in thousandths (labels have at most
\* three decimals); inf is -1, 0 or 1.
py_float(text) ==
    LET s == str_strip(text)
        signed == s # <<>> /\ Head(s) \in {"+", "-"}
        neg == signed /\ Head(s) = "-"
        body == IF signed THEN Tail(s) ELSE s
        word == str_lower(body)
        dots == {i \in 1..Len(body) : body[i] = "."}
        dot == IF dots = {} THEN Len(body) + 1 ELSE CHOOSE i \in dots : TRUE
        int_part == SubSeq(body, 1, dot - 1)
        frac_part == SubSeq(body, dot + 1, Len(body))
        frac3 == SubSeq(frac_part \o <<"0","0","0">>, 1, 3)
        magnitude == 1000 * digits_value(int_part) + digits_value(frac3)
    IN  IF word \in {<<"i","n","f">>, <<"i","n","f","i","n","i","t","y">>}
        THEN [ok |-> TRUE, nan |-> FALSE, inf |-> IF neg THEN -1 ELSE 1, num |-> 0]
        ELSE IF word = <<"n","a","n">>
        THEN [ok |-> TRUE, nan |-> TRUE, inf |-> 0, num |-> 0]
        ELSE IF /\ \A i \in 1..Len(body) : is_digit(body[i]) \/ body[i] = "."
                /\ Cardinality(dots) <= 1
                /\ \E i \in 1..Len(body) : is_digit(body[i])
        THEN [ok |-> TRUE, nan |-> FALSE, inf |-> 0,
              num |-> IF neg THEN 0 - magnitude ELSE magnitude]
        ELSE [ok |-> FALSE, nan |-> FALSE, inf |-> 0, num |-> 0]

\* float("inf")
float_inf == [ok |-> TRUE, nan |-> FALSE, inf |-> 1, num |-> 0]

\* a < b and a == b on float (both False when either is nan).
float_less(a, b) ==
    /\ ~a.nan /\ ~b.nan
    /\ a.inf < b.inf \/ (a.inf = 0 /\ b.inf = 0 /\ a.num < b.num)
float_eq(a, b) == ~a.nan /\ ~b.nan /\ a.inf = b.inf /\ a.num = b.num

\* Mutant of replace_plus: only one trailing "+" is removed.
replace_trailing_plus(s) ==
    IF s # <<>> /\ s[Len(s)] = "+" THEN SubSeq(s, 1, Len(s) - 1) ELSE s

\* s.replace("+", "")
replace_plus(s) == SelectSeq(s, LAMBDA c : c # "+")

\* numeric_sort_key_wc: (float(s.replace("+", "")), s), or (inf, s) on
\* ValueError.
numeric_sort_key_wc(x) ==
    LET f == py_float(replace_plus(x))
    IN  IF f.ok THEN <<f, x>> ELSE <<float_inf, x>>

\* a < b on the (float, str) key tuples: the first items unless they are
\* equal, then the second.
key_less(a, b) ==
    IF float_eq(a[1], b[1]) THEN str_less(a[2], b[2]) ELSE float_less(a[1], b[1])

\* One step of a stable sort: x goes before the first item that is greater.
RECURSIVE insert_by_key(_, _)
insert_by_key(x, sorted) ==
    IF sorted = <<>> THEN <<x>>
    ELSE IF key_less(numeric_sort_key_wc(x), numeric_sort_key_wc(Head(sorted)))
         THEN <<x>> \o sorted
         ELSE <<Head(sorted)>> \o insert_by_key(x, Tail(sorted))

\* sorted(items, key=numeric_sort_key_wc)
RECURSIVE sorted_by_wc_key(_)
sorted_by_wc_key(items) ==
    IF items = <<>> THEN <<>>
    ELSE insert_by_key(items[Len(items)],
                       sorted_by_wc_key(SubSeq(items, 1, Len(items) - 1)))

\* pd.unique(values): the distinct values in order of first appearance.
pd_unique(values) == append_new(<<>>, values)

\* male_wcs / female_wcs
wc_option_list(series) == sorted_by_wc_key(pd_unique(series))

----------------------------------------------------------------------------
(* reset_filters and filter_with_controls *)

FilterKeys == {"gender", "ages", "wcs_male", "wcs_female", "equipment", "tested_state"}

\* Mutant of reset_filters: tested_state is not among the keys deleted.
reset_filters_keep_tested(ss) ==
    [k \in (DOMAIN ss) \ (FilterKeys \ {"tested_state"}) |-> ss[k]]

\* reset_filters: every filter key present is deleted.
reset_filters(ss) == [k \in (DOMAIN ss) \ FilterKeys |-> ss[k]]

\* st.session_state.get(key) or []
get_or_empty(ss, key) == IF key \in DOMAIN ss THEN ss[key] ELSE <<>>

\* st.session_state.get("tested_state", "All")
get_tested_state(ss) == IF "tested_state" \in DOMAIN ss THEN ss["tested_state"] ELSE All

\* Mutant of isin_if_selected: the selection is applied even when empty.
isin_always(out, column, selection) ==
    SelectSeq(out, LAMBDA r : r[column] \in Range(selection))

\* if selection: out = out[out[column].isin(selection)]
isin_if_selected(out, column, selection) ==
    IF selection # <<>>
    THEN SelectSeq(out, LAMBDA r : r[column] \in Range(selection))
    ELSE out

\* Mutant of weight_class_step: with no sex or both sexes selected, each
\* row is held against the selection of its own sex.
weight_class_step_by_sex(out, gender, wcs_male, wcs_female) ==
    IF gender = <<Female>> THEN isin_if_selected(out, "WeightClassKg", wcs_female)
    ELSE IF gender = <<Male>> THEN isin_if_selected(out, "WeightClassKg", wcs_male)
    ELSE SelectSeq(out, LAMBDA r :
            IF r.Sex = Female
            THEN wcs_female = <<>> \/ r.WeightClassKg \in Range(wcs_female)
            ELSE wcs_male = <<>> \/ r.WeightClassKg \in Range(wcs_male))

\* The weight-class branch on gender.
weight_class_step(out, gender, wcs_male, wcs_female) ==
    IF gender = <<Female>> THEN isin_if_selected(out, "WeightClassKg", wcs_female)
    ELSE IF gender = <<Male>> THEN isin_if_selected(out, "WeightClassKg", wcs_male)
    ELSE LET combined == Range(wcs_male) \cup Range(wcs_female)
         IN  IF combined # {}
             THEN SelectSeq(out, LAMBDA r : r.WeightClassKg \in combined)
             ELSE out

\* Mutant of tested_step: a selector value that is not All, Tested or
\* Untested matches no row.
tested_step_strict(out, tested_state) ==
    IF tested_state = Tested
    THEN SelectSeq(out, LAMBDA r : str_lower(r.Tested) = str_lower(Tested))
    ELSE IF tested_state = Untested
    THEN SelectSeq(out, LAMBDA r : str_lower(r.Tested) = str_lower(Untested))
    ELSE IF tested_state = All THEN out ELSE <<>>

\* Mutant of tested_step: the Tested column is lowercased in the rows
\* before it is compared.
tested_step_lowering(out, tested_state) ==
    LET low == [p \in 1..Len(out) |-> [out[p] EXCEPT !.Tested = str_lower(@)]]
    IN  IF tested_state = Tested
        THEN SelectSeq(low, LAMBDA r : r.Tested = str_lower(Tested))
        ELSE IF tested_state = Untested
        THEN SelectSeq(low, LAMBDA r : r.Tested = str_lower(Untested))
        ELSE out

\* The tested-state branch.
tested_step(out, tested_state) ==
    IF tested_state = Tested
    THEN SelectSeq(out, LAMBDA r : str_lower(r.Tested) = <<"t","e","s","t","e","d">>)
    ELSE IF tested_state = Untested
    THEN SelectSeq(out, LAMBDA r : str_lower(r.Tested) = <<"u","n","t","e","s","t","e","d">>)
    ELSE out

\* filter_with_controls(df), reading the session state ss.
filter_with_controls(df, ss) ==
    LET gender == get_or_empty(ss, "gender")
        ages == get_or_empty(ss, "ages")
        wcs_male == get_or_empty(ss, "wcs_male")
        wcs_female == get_or_empty(ss, "wcs_female")
        equipment == get_or_empty(ss, "equipment")
        tested_state == get_tested_state(ss)
        by_sex == isin_if_selected(df, "Sex", gender)
        by_age == isin_if_selected(by_sex, "AgeCategory", ages)
        by_wc == weight_class_step(by_age, gender, wcs_male, wcs_female)
        by_eq == isin_if_selected(by_wc, "Equipment", equipment)
    IN  tested_step(by_eq, tested_state)

----------------------------------------------------------------------------
(* union_series, show_table and the script's steps *)

RECURSIVE insert_text(_, _)
insert_text(x, sorted) ==
    IF sorted = <<>> THEN <<x>>
    ELSE IF str_less(x, Head(sorted)) THEN <<x>> \o sorted
    ELSE <<Head(sorted)>> \o insert_text(x, Tail(sorted))

\* sorted(list of str)
RECURSIVE sorted_text(_)
sorted_text(items) ==
    IF items = <<>> THEN <<>>
    ELSE insert_text(items[Len(items)],
                     sorted_text(SubSeq(items, 1, Len(items) - 1)))

column(df, name) == [p \in 1..Len(df) |-> df[p][name]]

RECURSIVE concat_all(_)
concat_all(series_list) ==
    IF series_list = <<>> THEN <<>>
    ELSE Head(series_list) \o concat_all(Tail(series_list))

\* union_series: the distinct values of the series, sorted.
union_series(series_list) == sorted_text(pd_unique(concat_all(series_list)))

SortColumns == <<"Sex", "AgeCategory", "Event", "Tested", "Equipment", "WeightClassKg">>

\* Row a sorts before row b on the sort columns from the k-th on.
RECURSIVE row_less(_, _, _)
row_less(a, b, k) ==
    IF k > Len(SortColumns) THEN FALSE
    ELSE IF a[SortColumns[k]] = b[SortColumns[k]] THEN row_less(a, b, k + 1)
    ELSE str_less(a[SortColumns[k]], b[SortColumns[k]])

RECURSIVE insert_row(_, _)
insert_row(x, sorted) ==
    IF sorted = <<>> THEN <<x>>
    ELSE IF row_less(x, Head(sorted), 1) THEN <<x>> \o sorted
    ELSE <<Head(sorted)>> \o insert_row(x, Tail(sorted))

\* show_table: the rows in the stable (mergesort) order of the sort columns.
RECURSIVE show_table(_)
show_table(df) ==
    IF df = <<>> THEN <<>>
    ELSE insert_row(df[Len(df)], show_table(SubSeq(df, 1, Len(df) - 1)))

\* data[data["Event"] == "SBD"] and data[data["Event"].isin(["B", "D"])]
event_sbd(df) == SelectSeq(df, LAMBDA r : r.Event = SBD)
event_singles(df) == SelectSeq(df, LAMBDA r : r.Event \in {EvB, EvD})

\* The option lists, from data and, when it is a DataFrame, prev_data.
build_options(d, prev) ==
    LET tables == IF prev = <<>> THEN <<d>> ELSE <<d, prev[1]>>
        of_sex(df, sx) == column(SelectSeq(df, LAMBDA r : r.Sex = sx), "WeightClassKg")
    IN  [ages |-> union_series([t \in 1..Len(tables) |-> column(tables[t], "AgeCategory")]),
         eqs |-> union_series([t \in 1..Len(tables) |-> column(tables[t], "Equipment")]),
         male_wcs |-> wc_option_list(
                        concat_all([t \in 1..Len(tables) |-> of_sex(tables[t], Male)])),
         female_wcs |-> wc_option_list(
                        concat_all([t \in 1..Len(tables) |-> of_sex(tables[t], Female)]))]

show_female_wc(gender) ==
    gender = <<Female>> \/ gender = <<>> \/ Range(gender) = {Male, Female}
show_male_wc(gender) ==
    gender = <<Male>> \/ gender = <<>> \/ Range(gender) = {Male, Female}

\* The keys of the widgets the filter bar draws for this gender selection.
widget_keys(gender) ==
    {"gender", "ages", "equipment", "tested_state"}
    \cup (IF show_female_wc(gender) THEN {"wcs_female"} ELSE {})
    \cup (IF show_male_wc(gender) THEN {"wcs_male"} ELSE {})

\* The session state once the filter bar is drawn: tested_state set to
\* "All" when absent, and every widget drawn holding its key (an empty
\* selection when the key was absent).
filter_bar_state(ss) ==
    LET gender == get_or_empty(ss, "gender")
    IN  [k \in (DOMAIN ss) \cup widget_keys(gender) |->
            IF k \in DOMAIN ss THEN ss[k]
            ELSE IF k = "tested_state" THEN All ELSE <<>>]

\* Mutant of after_prev_load: a previous-year file that cannot be read
\* stops the run, as the primary file does.
after_prev_load_stop(raised) == IF raised THEN "stopped" ELSE "filter_bar"

\* Where the run goes on after the previous-year file was tried: the
\* warning does not stop it.
after_prev_load(raised) == "filter_bar"

NoViews == [sbd |-> <<>>, singles |-> <<>>, prev_sbd |-> <<>>, prev_singles |-> <<>>]
NoOptions == [ages |-> <<>>, eqs |-> <<>>, male_wcs |-> <<>>, female_wcs |-> <<>>]

\* The lists of up to n different options.
RECURSIVE Selections(_, _)
Selections(opts, n) ==
    IF n = 0 THEN {<<>>}
    ELSE LET shorter == Selections(opts, n - 1)
         IN  shorter \cup UNION { {Append(q, x) : x \in opts \ Range(q)} : q \in shorter }

----------------------------------------------------------------------------
(* Workbooks handed to load_qualifying_table *)

W90pad == <<" ","9","0">>
FP_XLSX == <<"F","P",".","x","l","s","x">>
PREV_XLSX == <<"2","0","2","5","_","F","P",".","x","l","s","x">>
T_CSV == <<"t",".","C","S","V">>
T_TXT == <<"t",".","t","x","t">>

\* Raw cells of the Tested column.
TestedRaw ==
    << <<<<"Y","e","s">>>>, <<<<"T","R","U","E">>>>, <<Tested>>,
       <<<<"N","o">>>>, <<<<"f","a","l","s","e">>>>, <<Untested>>,
       <<<<"N","/","A">>>>, <<<<"U","n"," ","t","e","s","t","e","d">>>>,
       <<<<" ","y","e","s"," ">>>>, <<<<" ","M","a","y","b","e">>>>,
       <<<<"U","N","T","E","S","T","E","D","\t">>>>, NaN >>

header_code(h) == IF h = W90 THEN 1 ELSE IF h = W110P THEN 2
                  ELSE IF h = W63 THEN 3 ELSE 4

\* Every filled total cell is different: sheet, row and column can be read
\* off the value.
cell_total(s, i, h) == 100 * s + 10 * i + header_code(h)

BaseColumns == <<AGE_CATEGORY, SEX, EVENT, TESTED, EQUIPMENT>>

sheet_row(s, i, cols, nulls, off) ==
    [c \in Range(BaseColumns) \cup Range(cols) |->
        IF c = AGE_CATEGORY
            THEN IF i % 2 = 1 THEN <<<<" ">> \o Age24 \o <<" ">>>> ELSE <<Age40>>
        ELSE IF c = SEX THEN IF s = 1 THEN <<Male>> ELSE <<Female>>
        ELSE IF c = EVENT THEN <<<<SBD, EvB, EvD>>[((i - 1) % 3) + 1]>>
        ELSE IF c = TESTED
            THEN TestedRaw[((off + (s - 1) * MaxRows + (i - 1)) % Len(TestedRaw)) + 1]
        ELSE IF c = EQUIPMENT THEN IF i % 2 = 1 THEN <<Raw>> ELSE <<SinglePly>>
        ELSE IF <<i, c>> \in nulls THEN NaN ELSE <<cell_total(s, i, c)>>]

\* The sheets in position s of a workbook: a column list, up to MaxRows rows,
\* any set of empty total cells.
Sheets(s, lists, off) ==
    UNION { { [columns |-> BaseColumns \o c[1],
               rows |-> [i \in 1..c[2] |-> sheet_row(s, i, c[1], nulls, off)]] :
                nulls \in SUBSET ((1..c[2]) \X Range(c[1])) } :
            c \in lists \X (0..MaxRows) }

MenColumnLists == {<<W90>>, <<W90, W110P>>, <<W110P, W90>>}
WomenColumnLists == {<<W90>>, <<W63, W90pad>>}
TestedOffsets == {0, 4, 8}

Workbooks ==
    UNION { {<<m>> : m \in Sheets(1, MenColumnLists, off)}
            \cup (Sheets(1, MenColumnLists, off) \X Sheets(2, WomenColumnLists, off)) :
            off \in TestedOffsets }

drop_column(sheet, col) ==
    [columns |-> SelectSeq(sheet.columns, LAMBDA c : c # col),
     rows |-> [i \in 1..Len(sheet.rows) |->
                [c \in (DOMAIN sheet.rows[i]) \ {col} |-> sheet.rows[i][c]]]]

MenSample ==
    [columns |-> BaseColumns \o <<W90, W110P>>,
     rows |-> [i \in 1..2 |-> sheet_row(1, i, <<W90, W110P>>, {<<2, W110P>>}, 0)]]
WomenSample ==
    [columns |-> BaseColumns \o <<W63>>,
     rows |-> [i \in 1..1 |-> sheet_row(2, i, <<W63>>, {}, 0)]]

File(name, is_str, exists, format, sheets) ==
    [name |-> name, is_str |-> is_str, exists |-> exists,
     format |-> format, sheets |-> sheets]

\* Sources other than a well-formed FP.xlsx: a CSV handle, an unsupported
\* name, a missing path, an unreadable workbook, a CSV at an existing path,
\* a workbook without a Tested column, a workbook whose second sheet has
\* no Equipment column.
OtherSources ==
    { File(T_CSV, FALSE, TRUE, "csv", <<MenSample>>),
      File(T_TXT, FALSE, TRUE, "csv", <<MenSample>>),
      File(FP_XLSX, TRUE, FALSE, "excel", <<MenSample>>),
      File(FP_XLSX, TRUE, TRUE, "corrupt", <<MenSample>>),
      File(T_CSV, TRUE, TRUE, "csv", <<MenSample>>),
      File(FP_XLSX, TRUE, TRUE, "excel", <<drop_column(MenSample, TESTED)>>),
      File(FP_XLSX, TRUE, TRUE, "excel",
           <<MenSample, drop_column(WomenSample, EQUIPMENT)>>) }

LoadSources ==
    {File(FP_XLSX, TRUE, TRUE, "excel", wb) : wb \in Workbooks} \cup OtherSources

----------------------------------------------------------------------------
(* Inputs of the option lists and of filter_with_controls; the variables *)

\* Weight-class labels met by the option lists.
WcLabels ==
    { W90, W110P, W63, <<"9","0","+">>, <<"6","7",".","5">>, <<"1","0","0">>,
      <<"S","H","W">>, <<"O","p","e","n">>, <<"9","+","0">>,
      <<"9","0","+","+">>, <<"i","n","f">> }

RECURSIVE SeqsUpTo(_, _)
SeqsUpTo(S, n) ==
    IF n = 0 THEN {<<>>}
    ELSE LET shorter == SeqsUpTo(S, n - 1)
         IN  shorter \cup {Append(q, x) : q \in shorter, x \in S}

\* Tables handed to filter_with_controls: every combination of sex, age
\* category, weight class, equipment and Tested value, one row of them
\* twice; no row; the table loaded from a sample workbook.
TestedNA == <<"N","/","A">>
FullTable ==
    LET combos == { <<sx, ag, wc, eq, te>> :
                      sx \in {Male, Female}, ag \in {Age24, Age40},
                      wc \in {W63, W90}, eq \in {Raw, SinglePly},
                      te \in {Tested, Untested, TestedNA} }
        pick[S \in SUBSET combos] ==
            IF S = {} THEN <<>>
            ELSE LET c == CHOOSE x \in S : TRUE IN <<c>> \o pick[S \ {c}]
        order == pick[combos] \o <<pick[combos][1]>>
    IN  [p \in 1..Len(order) |->
            [index |-> p - 1, Sex |-> order[p][1], AgeCategory |-> order[p][2],
             Event |-> SBD, WeightClassKg |-> order[p][3],
             Equipment |-> order[p][4], Tested |-> order[p][5],
             QualifyingTotalKg |-> <<100 + p>>]]

SampleTable ==
    load_qualifying_table(File(FP_XLSX, TRUE, TRUE, "excel", <<MenSample, WomenSample>>)).df

FilterTables == {FullTable, <<>>, SampleTable}

Other == <<"O","t","h","e","r">>
Bogus == <<"B","o","g","u","s">>

\* Filter states: what the widgets can hold, and values they cannot (a sex
\* that is none, a tested-state that is none), with any of the keys absent
\* as after a reset.
FilterValues ==
    [gender : {<<>>, <<Male>>, <<Female>>, <<Male, Female>>, <<Female, Male>>,
               <<Other>>, <<str_lower(Male), Other>>},
     ages : {<<>>, <<Age24>>, <<Age40, Age24>>},
     wcs_male : {<<>>, <<W90>>, <<W90, W63>>},
     wcs_female : {<<>>, <<W63>>},
     equipment : {<<>>, <<Raw>>, <<SinglePly, Raw>>},
     tested_state : {All, Tested, Untested, str_lower(Tested), Bogus}]

PresentKeys == {FilterKeys, {}, FilterKeys \ {"tested_state"}, FilterKeys \ {"gender", "ages"}}

FilterStates == { [k \in K |-> v[k]] : v \in FilterValues, K \in PresentKeys }

loadVars == <<source, long_df, lpc>>
sortVars == <<wc_series, wc_options, spc>>
filterVars == <<fdf, fout, fpc>>
appVars == <<fs, pc, data, prev_data, options, views, shown, notices, trigger>>
vars == <<loadVars, sortVars, filterVars, session_state, appVars>>

LoadOff == source = <<>> /\ long_df = <<>> /\ lpc = "off"
SortOff == wc_series = <<>> /\ wc_options = <<>> /\ spc = "off"
FilterOff == fdf = <<>> /\ fout = <<>> /\ fpc = "off"
SessionOff == session_state = <<>>
AppOff ==
    /\ fs = <<>> /\ pc = "off" /\ data = <<>> /\ prev_data = <<>>
    /\ options = <<>> /\ views = <<>> /\ shown = <<>> /\ notices = {}
    /\ trigger = "off"

----------------------------------------------------------------------------
(* SpecLoad: load_qualifying_table applied to one source *)

InitLoad ==
    /\ source \in LoadSources
    /\ long_df = <<>>
    /\ lpc = "ready"
    /\ SortOff /\ FilterOff /\ SessionOff /\ AppOff

Load ==
    /\ lpc = "ready"
    /\ LET res == load_qualifying_table(source)
       IN  /\ long_df' = res.df
           /\ lpc' = IF res.raised THEN "raised" ELSE "loaded"
    /\ UNCHANGED <<source, sortVars, filterVars, session_state, appVars>>

NextLoad == Load

SpecLoad == InitLoad /\ [][NextLoad]_vars

----------------------------------------------------------------------------
(* SpecSort: one weight-class option list built from the rows of one sex *)

InitSort ==
    /\ wc_series \in SeqsUpTo(WcLabels, MaxLabels)
    /\ wc_options = <<>>
    /\ spc = "ready"
    /\ LoadOff /\ FilterOff /\ SessionOff /\ AppOff

BuildWcOptions ==
    /\ spc = "ready"
    /\ wc_options' = wc_option_list(wc_series)
    /\ spc' = "sorted"
    /\ UNCHANGED <<wc_series, loadVars, filterVars, session_state, appVars>>

NextSort == BuildWcOptions

SpecSort == InitSort /\ [][NextSort]_vars

----------------------------------------------------------------------------
(* SpecFilter: filter_with_controls applied to one table and filter state *)

InitFilter ==
    /\ fdf \in FilterTables
    /\ session_state \in FilterStates
    /\ fout = <<>>
    /\ fpc = "ready"
    /\ LoadOff /\ SortOff /\ AppOff

Resolve ==
    /\ fpc = "ready"
    /\ fout' = filter_with_controls(fdf, session_state)
    /\ fpc' = "resolved"
    /\ UNCHANGED <<fdf, session_state, loadVars, sortVars, appVars>>

NextFilter == Resolve

SpecFilter == InitFilter /\ [][NextFilter]_vars

----------------------------------------------------------------------------
(* Spec: the script, run from the top on every interaction *)

\* FP.xlsx: missing, unreadable, without a Tested column, or a workbook
\* with a Men and a Women sheet.
PrimaryFiles ==
    { File(FP_XLSX, TRUE, FALSE, "excel", <<>>),
      File(FP_XLSX, TRUE, TRUE, "corrupt", <<>>),
      File(FP_XLSX, TRUE, TRUE, "excel", <<drop_column(MenSample, TESTED)>>),
      File(FP_XLSX, TRUE, TRUE, "excel", <<MenSample, WomenSample>>) }

PrevMen ==
    [columns |-> BaseColumns \o <<W110P, W90>>,
     rows |-> [i \in 1..2 |-> sheet_row(3, i, <<W110P, W90>>, {<<1, W110P>>}, 4)]]

\* 2025_FP.xlsx: missing, unreadable, or a workbook.
PrevFiles ==
    { File(PREV_XLSX, TRUE, FALSE, "excel", <<>>),
      File(PREV_XLSX, TRUE, TRUE, "corrupt", <<>>),
      File(PREV_XLSX, TRUE, TRUE, "excel", <<PrevMen>>) }

Init ==
    /\ fs \in [primary : PrimaryFiles, prev : PrevFiles]
    /\ pc = "load_primary"
    /\ session_state = <<>>
    /\ data = <<>> /\ prev_data = <<>>
    /\ options = NoOptions /\ views = NoViews /\ shown = NoViews
    /\ notices = {}
    /\ trigger = "open"
    /\ LoadOff /\ SortOff /\ FilterOff

others == <<loadVars, sortVars, filterVars>>

\* FP.xlsx is checked and loaded; the run stops when it is missing or
\* cannot be read.
LoadPrimary ==
    /\ pc = "load_primary"
    /\ IF ~fs.primary.exists
       THEN /\ notices' = notices \cup {"error_missing"}
            /\ pc' = "stopped"
            /\ data' = data
       ELSE LET res == load_qualifying_table(fs.primary)
            IN  IF res.raised
                THEN /\ notices' = notices \cup {"error_read"}
                     /\ pc' = "stopped"
                     /\ data' = data
                ELSE /\ data' = res.df
                     /\ pc' = "load_prev"
                     /\ notices' = notices
    /\ UNCHANGED <<fs, session_state, prev_data, options, views, shown, trigger, others>>

\* 2025_FP.xlsx is loaded when it is there; a failure is a warning.
LoadPrevious ==
    /\ pc = "load_prev"
    /\ IF fs.prev.exists
       THEN LET res == load_qualifying_table(fs.prev)
            IN  /\ prev_data' = IF res.raised THEN <<>> ELSE <<res.df>>
                /\ notices' = IF res.raised THEN notices \cup {"warning_prev"}
                              ELSE notices
                /\ pc' = after_prev_load(res.raised)
       ELSE /\ prev_data' = <<>>
            /\ notices' = notices
            /\ pc' = "filter_bar"
    /\ UNCHANGED <<fs, session_state, data, options, views, shown, trigger, others>>

\* The option lists are built, tested_state gets its default, the filter
\* bar is drawn.
FilterBar ==
    /\ pc = "filter_bar"
    /\ options' = build_options(data, prev_data)
    /\ session_state' = filter_bar_state(session_state)
    /\ pc' = "tab_sbd"
    /\ UNCHANGED <<fs, data, prev_data, views, shown, notices, trigger, others>>

TabSbd ==
    /\ pc = "tab_sbd"
    /\ LET sbd_view == filter_with_controls(event_sbd(data), session_state)
       IN  /\ views' = [views EXCEPT !.sbd = <<sbd_view>>]
           /\ shown' = [shown EXCEPT !.sbd = <<show_table(sbd_view)>>]
    /\ pc' = "tab_singles"
    /\ UNCHANGED <<fs, session_state, data, prev_data, options, notices, trigger, others>>

TabSingles ==
    /\ pc = "tab_singles"
    /\ LET singles_view == filter_with_controls(event_singles(data), session_state)
       IN  /\ views' = [views EXCEPT !.singles = <<singles_view>>]
           /\ shown' = [shown EXCEPT !.singles = <<show_table(singles_view)>>]
    /\ pc' = "tab_prev"
    /\ UNCHANGED <<fs, session_state, data, prev_data, options, notices, trigger, others>>

TabPrev ==
    /\ pc = "tab_prev"
    /\ IF prev_data = <<>>
       THEN /\ notices' = notices \cup {"info_prev"}
            /\ UNCHANGED <<views, shown>>
       ELSE LET prev_sbd_view ==
                    filter_with_controls(event_sbd(prev_data[1]), session_state)
                prev_singles_view ==
                    filter_with_controls(event_singles(prev_data[1]), session_state)
            IN  /\ views' = [views EXCEPT !.prev_sbd = <<prev_sbd_view>>,
                                          !.prev_singles = <<prev_singles_view>>]
                /\ shown' = [shown EXCEPT !.prev_sbd = <<show_table(prev_sbd_view)>>,
                                          !.prev_singles = <<show_table(prev_singles_view)>>]
                /\ notices' = notices
    /\ pc' = "idle"
    /\ UNCHANGED <<fs, session_state, data, prev_data, options, trigger, others>>

\* An interaction ends the page of the last run and starts the script anew.
Rerun ==
    /\ pc' = "load_primary"
    /\ data' = <<>> /\ prev_data' = <<>>
    /\ options' = NoOptions /\ views' = NoViews /\ shown' = NoViews
    /\ notices' = {}
    /\ UNCHANGED <<fs, others>>

\* The user changes the value of one widget of the filter bar. Only a
\* widget drawn in the last run can be changed; the value held under the key
\* of a widget that is not drawn stays as it is.
SetWidget(key, value) ==
    /\ pc = "idle"
    /\ key \in widget_keys(get_or_empty(session_state, "gender"))
    /\ session_state[key] # value
    /\ session_state' = [session_state EXCEPT ![key] = value]
    /\ trigger' = "widget"
    /\ Rerun

SelectGender == \E v \in Selections({Male, Female}, 2) : SetWidget("gender", v)
SelectAges == \E v \in Selections(Range(options.ages), MaxSelect) : SetWidget("ages", v)
SelectFemaleWc ==
    \E v \in Selections(Range(options.female_wcs), MaxSelect) : SetWidget("wcs_female", v)
SelectMaleWc ==
    \E v \in Selections(Range(options.male_wcs), MaxSelect) : SetWidget("wcs_male", v)
SelectEquipment ==
    \E v \in Selections(Range(options.eqs), MaxSelect) : SetWidget("equipment", v)
SelectTested == \E v \in {All, Tested, Untested} : SetWidget("tested_state", v)

\* The Reset button: reset_filters runs, then the script.
ClickReset ==
    /\ pc = "idle"
    /\ session_state' = reset_filters(session_state)
    /\ trigger' = "reset"
    /\ Rerun

Next ==
    \/ LoadPrimary \/ LoadPrevious \/ FilterBar
    \/ TabSbd \/ TabSingles \/ TabPrev
    \/ SelectGender \/ SelectAges \/ SelectFemaleWc \/ SelectMaleWc
    \/ SelectEquipment \/ SelectTested
    \/ ClickReset

Spec == Init /\ [][Next]_vars

----------------------------------------------------------------------------
(* Where a tidy row comes from, read off its total *)

src_sheet(r) == r.QualifyingTotalKg[1] \div 100
src_row(r) == (r.QualifyingTotalKg[1] % 100) \div 10
src_code(r) == r.QualifyingTotalKg[1] % 10

\* The raw Tested cell of the wide row a tidy row comes from.
raw_tested(r) ==
    LET sh == source.sheets[src_sheet(r)]
    IN  IF TESTED \in Range(sh.columns) THEN sh.rows[src_row(r)][TESTED] ELSE NaN

TestedWords == {<<"y","e","s">>, <<"t","r","u","e">>, <<"t","e","s","t","e","d">>}
UntestedWords == {<<"n","o">>, <<"f","a","l","s","e">>, <<"u","n","t","e","s","t","e","d">>}

filled_cells(sh) ==
    {c \in (1..Len(sh.rows)) \X (Range(sh.columns) \ base_cols) :
        ~isna(sh.rows[c[1]][c[2]])}

RECURSIVE sum_filled(_)
sum_filled(sheets) ==
    IF sheets = <<>> THEN 0
    ELSE Cardinality(filled_cells(Head(sheets))) + sum_filled(Tail(sheets))

\* C6: the tidy table of a workbook has one row per filled (wide row,
\* weight-class column) cell, summed over the sheets, a column a sheet does
\* not have counting for nothing in that sheet, and no row without a total.
C6_RowCount ==
    (lpc = "loaded" /\ detect_format(source) = "excel") =>
        /\ Len(long_df) = sum_filled(source.sheets)
        /\ \A p \in 1..Len(long_df) : ~isna(long_df[p].QualifyingTotalKg)

\* Two sheets with different weight-class columns, an empty cell in one of
\* them, and rows from both sheets in the tidy table.
C6_Witness ==
    /\ lpc = "loaded"
    /\ Len(source.sheets) = 2
    /\ Range(source.sheets[1].columns) # Range(source.sheets[2].columns)
    /\ \E i \in 1..Len(source.sheets[1].rows) :
          \E c \in Range(source.sheets[1].columns) : isna(source.sheets[1].rows[i][c])
    /\ \E p, q \in 1..Len(long_df) :
          src_sheet(long_df[p]) = 1 /\ src_sheet(long_df[q]) = 2

\* Position of a tidy row's wide row: sheet order, then row order.
RECURSIVE rows_before(_, _)
rows_before(sheets, s) ==
    IF s <= 1 THEN 0 ELSE Len(sheets[s - 1].rows) + rows_before(sheets, s - 1)

wide_pos(r) == rows_before(source.sheets, src_sheet(r)) + src_row(r)

\* Position of a tidy row's column among the weight-class columns of the
\* wide table, left to right.
col_pos(r) ==
    LET cols == SelectSeq(concat_columns(source.sheets), LAMBDA c : c \notin base_cols)
    IN  CHOOSE k \in 1..Len(cols) : header_code(cols[k]) = src_code(r)

\* C8 as stated: the tidy rows come wide row by wide row, each wide row's
\* rows together and in the column order of the wide table.
C8_RowByRow ==
    (lpc = "loaded" /\ detect_format(source) = "excel") =>
        \A p, q \in 1..Len(long_df) :
            p < q =>
                \/ wide_pos(long_df[p]) < wide_pos(long_df[q])
                \/ /\ wide_pos(long_df[p]) = wide_pos(long_df[q])
                   /\ col_pos(long_df[p]) < col_pos(long_df[q])

\* C8 amended: the tidy rows come column by column: for each weight-class
\* column, in the column order of the wide table, the rows of all wide rows
\* (sheet order, then row order) with a total in that column.
C8_ColumnByColumn ==
    (lpc = "loaded" /\ detect_format(source) = "excel") =>
        \A p, q \in 1..Len(long_df) :
            p < q =>
                \/ col_pos(long_df[p]) < col_pos(long_df[q])
                \/ /\ col_pos(long_df[p]) = col_pos(long_df[q])
                   /\ wide_pos(long_df[p]) < wide_pos(long_df[q])

\* Two wide rows with totals in the same two columns.
C8_Witness ==
    /\ lpc = "loaded"
    /\ \E p, q, u, v \in 1..Len(long_df) :
        /\ wide_pos(long_df[p]) = wide_pos(long_df[q])
        /\ wide_pos(long_df[u]) = wide_pos(long_df[v])
        /\ wide_pos(long_df[p]) # wide_pos(long_df[u])
        /\ col_pos(long_df[p]) = col_pos(long_df[u])
        /\ col_pos(long_df[q]) = col_pos(long_df[v])
        /\ col_pos(long_df[p]) # col_pos(long_df[q])

----------------------------------------------------------------------------
(* C9: the weight-class sort key *)

\* The number a label stands for once every "+" is taken out.
label_value(l) == py_float(SelectSeq(l, LAMBDA c : c # "+"))
is_finite(l) == label_value(l).ok /\ ~label_value(l).nan /\ label_value(l).inf = 0

\* The key as C9 states it: one trailing "+" stripped, then parsed.
stated_key(l) ==
    LET t == IF l # <<>> /\ l[Len(l)] = "+" THEN SubSeq(l, 1, Len(l) - 1) ELSE l
        f == py_float(t)
    IN  IF f.ok THEN <<f, l>> ELSE <<float_inf, l>>
stated_numeric(l) ==
    LET t == IF l # <<>> /\ l[Len(l)] = "+" THEN SubSeq(l, 1, Len(l) - 1) ELSE l
    IN  py_float(t).ok

----------------------------------------------------------------------------
(* C1, C2, C3: filter resolution *)

\* The session state with some keys set anew.
with_keys(ss, upd) == [k \in (DOMAIN ss) \cup (DOMAIN upd) |->
                         IF k \in DOMAIN upd THEN upd[k] ELSE ss[k]]

no_wc == [wcs_male |-> <<>>, wcs_female |-> <<>>]

\* C1: the weight-class selection applied depends on the selected sexes
\* alone: with exactly Female the female selection (if any), the male one
\* being without effect; with exactly Male the male selection (if any), the
\* female one being without effect; with none or both, in either order, the
\* union of the two (if not empty), whatever the Sex of the row.
C1_WeightClassBySex ==
    fpc = "resolved" =>
        LET gender == get_or_empty(session_state, "gender")
            m == get_or_empty(session_state, "wcs_male")
            f == get_or_empty(session_state, "wcs_female")
            rest == filter_with_controls(fdf, with_keys(session_state, no_wc))
        IN  /\ gender = <<Female>> =>
                fout = SelectSeq(rest, LAMBDA r :
                          f = <<>> \/ r.WeightClassKg \in Range(f))
            /\ gender = <<Male>> =>
                fout = SelectSeq(rest, LAMBDA r :
                          m = <<>> \/ r.WeightClassKg \in Range(m))
            /\ gender \in {<<>>, <<Male, Female>>, <<Female, Male>>} =>
                fout = SelectSeq(rest, LAMBDA r :
                          (m = <<>> /\ f = <<>>)
                          \/ r.WeightClassKg \in Range(m) \cup Range(f))

\* No sex selected, male selection 90, female selection 63: a Female row
\* of class 90 and a Male row of class 63 are both returned.
C1_Witness ==
    /\ fpc = "resolved"
    /\ get_or_empty(session_state, "gender") = <<>>
    /\ get_or_empty(session_state, "wcs_male") = <<W90>>
    /\ get_or_empty(session_state, "wcs_female") = <<W63>>
    /\ \E p, q \in 1..Len(fout) :
          /\ fout[p].Sex = Female /\ fout[p].WeightClassKg = W90
          /\ fout[q].Sex = Male /\ fout[q].WeightClassKg = W63

\* The filter state with one dimension kept and all the others at default.
only(key) ==
    IF key \in DOMAIN session_state THEN [k \in {key} |-> session_state[k]]
    ELSE <<>>

others_default ==
    /\ get_or_empty(session_state, "gender") = <<>>
    /\ get_or_empty(session_state, "wcs_male") = <<>>
    /\ get_or_empty(session_state, "wcs_female") = <<>>

\* C2: with age, equipment and tested-state set and the other fields at
\* default, the rows returned are the rows common to the three results of
\* each selection applied alone; an empty selection, or tested-state All,
\* removes no row.
C2_Conjunction ==
    (fpc = "resolved" /\ others_default) =>
        LET by_age == filter_with_controls(fdf, only("ages"))
            by_eq == filter_with_controls(fdf, only("equipment"))
            by_tested == filter_with_controls(fdf, only("tested_state"))
        IN  /\ fout = SelectSeq(fdf, LAMBDA r :
                        r \in Range(by_age) \cap Range(by_eq) \cap Range(by_tested))
            /\ get_or_empty(session_state, "ages") = <<>> => by_age = fdf
            /\ get_or_empty(session_state, "equipment") = <<>> => by_eq = fdf
            /\ get_tested_state(session_state) = All => by_tested = fdf

\* All three dimensions set, each alone keeping rows the others drop, and
\* some row in common.
C2_Witness ==
    /\ fpc = "resolved" /\ others_default
    /\ get_or_empty(session_state, "ages") = <<Age24>>
    /\ get_or_empty(session_state, "equipment") = <<Raw>>
    /\ get_tested_state(session_state) = Tested
    /\ fout # <<>>
    /\ Len(fout) < Len(filter_with_controls(fdf, only("ages")))
    /\ Len(fout) < Len(filter_with_controls(fdf, only("equipment")))
    /\ Len(fout) < Len(filter_with_controls(fdf, only("tested_state")))

unknown_sexes ==
    LET gender == get_or_empty(session_state, "gender")
    IN  gender # <<>> /\ Range(gender) \cap {Male, Female} = {}

\* C3 as stated: a selected-sexes set of strings that are no Sex value
\* yields no row, and so does a tested-state selector that is not All,
\* Tested or Untested.
C3_MalformedMatchesNothing ==
    fpc = "resolved" =>
        /\ unknown_sexes => fout = <<>>
        /\ get_tested_state(session_state) \notin {All, Tested, Untested} => fout = <<>>

\* C3 amended: a selected-sexes set of strings that are no Sex value yields
\* no row; a tested-state selector that is neither Tested nor Untested
\* puts no constraint on the rows, as All does.
C3_MalformedValues ==
    fpc = "resolved" =>
        /\ unknown_sexes => fout = <<>>
        /\ get_tested_state(session_state) \notin {Tested, Untested} =>
              fout = filter_with_controls(fdf,
                        with_keys(session_state, [tested_state |-> All]))

\* A selector value that is none of the three, no other field set, and
\* every row of a table that has rows returned.
C3_Witness ==
    /\ fpc = "resolved"
    /\ get_tested_state(session_state) = Bogus
    /\ get_or_empty(session_state, "gender") = <<>>
    /\ fout # <<>>
    /\ fout = fdf

----------------------------------------------------------------------------
(* C4, C7, C10: the script *)

\* The filter state as filter_with_controls reads it.
filter_state_of(ss) ==
    [gender |-> get_or_empty(ss, "gender"),
     ages |-> get_or_empty(ss, "ages"),
     wcs_male |-> get_or_empty(ss, "wcs_male"),
     wcs_female |-> get_or_empty(ss, "wcs_female"),
     equipment |-> get_or_empty(ss, "equipment"),
     tested_state |-> get_tested_state(ss)]

DefaultFilterState ==
    [gender |-> <<>>, ages |-> <<>>, wcs_male |-> <<>>, wcs_female |-> <<>>,
     equipment |-> <<>>, tested_state |-> All]

\* C4: whatever the user selected before, in the run a click on Reset
\* starts every field reads as empty and tested-state as All, and a second
\* reset leaves the filter state as it is.
C4_Reset ==
    trigger = "reset" =>
        /\ filter_state_of(session_state) = DefaultFilterState
        /\ filter_state_of(reset_filters(session_state)) = filter_state_of(session_state)
        /\ pc = "load_primary" => reset_filters(session_state) = session_state

\* The run started by a click on Reset has drawn its page.
C4_Witness ==
    /\ trigger = "reset"
    /\ pc = "idle"
    /\ views.sbd # <<>>

primary_loads == fs.primary.exists /\ ~load_qualifying_table(fs.primary).raised
prev_unavailable == ~fs.prev.exists \/ load_qualifying_table(fs.prev).raised
run_ended == pc \in {"idle", "stopped"}

\* C7: a primary source that is missing or fails to load halts the run and
\* no view of any table is produced; a primary source that loads gets both
\* its views, whatever happens to the secondary source; a secondary source
\* that is missing or fails to load leaves the prior-period table
\* unavailable and the primary table and its views as they are without it.
C7_LoadSequencing ==
    /\ ~primary_loads =>
          /\ views = NoViews /\ shown = NoViews
          /\ pc \in {"load_primary", "stopped"}
          /\ run_ended => notices \cap {"error_missing", "error_read"} # {}
    /\ (run_ended /\ primary_loads) =>
          /\ pc = "idle"
          /\ data = load_qualifying_table(fs.primary).df
          /\ views.sbd = <<filter_with_controls(event_sbd(data), session_state)>>
          /\ views.singles = <<filter_with_controls(event_singles(data), session_state)>>
    /\ (run_ended /\ primary_loads /\ prev_unavailable) =>
          /\ prev_data = <<>>
          /\ views.prev_sbd = <<>> /\ views.prev_singles = <<>>
          /\ "info_prev" \in notices

\* The secondary file is there and cannot be read: a warning, and both
\* primary views on the page.
C7_Witness ==
    /\ pc = "idle"
    /\ primary_loads
    /\ fs.prev.exists /\ prev_unavailable
    /\ "warning_prev" \in notices
    /\ views.sbd # <<>> /\ views.singles # <<>>
    /\ views.sbd[1] # <<>>

RECURSIVE is_subseq(_, _)
is_subseq(v, t) ==
    IF v = <<>> THEN TRUE
    ELSE IF t = <<>> THEN FALSE
    ELSE IF Head(v) = Head(t) THEN is_subseq(Tail(v), Tail(t))
    ELSE is_subseq(v, Tail(t))

no_row_twice(v) == \A p, q \in 1..Len(v) : v[p].index = v[q].index => p = q

view_of_input(view, input) ==
    view # <<>> => is_subseq(view[1], input) /\ no_row_twice(view[1])

views_from_inputs ==
    /\ view_of_input(views.sbd, event_sbd(data))
    /\ view_of_input(views.singles, event_singles(data))
    /\ prev_data # <<>> =>
          /\ view_of_input(views.prev_sbd, event_sbd(prev_data[1]))
          /\ view_of_input(views.prev_singles, event_singles(prev_data[1]))

\* C10: a tab's filter resolution leaves the tables and the filter state
\* as they were, and each view is a sub-sequence of its input: rows of the
\* input, unmodified, none twice, in the order of the input.
C10_Frame ==
    [][(TabSbd \/ TabSingles \/ TabPrev) =>
          /\ session_state' = session_state
          /\ data' = data /\ prev_data' = prev_data
          /\ views_from_inputs']_vars

\* All four views resolved in one run under a filter state that is not the
\* default, the SBD view keeping some rows and dropping others.
C10_Witness ==
    /\ pc = "idle"
    /\ prev_data # <<>>
    /\ views.prev_sbd # <<>> /\ views.prev_singles # <<>> /\ views.singles # <<>>
    /\ filter_state_of(session_state).tested_state = Tested
    /\ views.sbd # <<>>
    /\ views.sbd[1] # <<>>
    /\ Len(views.sbd[1]) < Len(event_sbd(data))

====
